---- MODULE Spec2Model ----
(***************************************************************************)
(* Model of kawaii.sh's authentication: the login handler                  *)
(* (src/routes/auth.rs, basic) and the per-role request guards             *)
(* (src/util/auth.rs, define_auth!, get_auth_data, create_jwt_string).     *)
(*                                                                         *)
(* Option<T> is a sequence of length at most one: None is <<>>, Some(x) is *)
(* <<x>>.  Result<T, E> is a record with an ok flag.  A Rust String that   *)
(* is parsed or formatted is a sequence of one-character strings.          *)
(***************************************************************************)
EXTENDS Integers, Sequences, FiniteSets, TLC

VARIABLES
    database,   \* state.database: the rows of the users table (read only for the two flows)
    now,        \* Utc::now(), in seconds
    session,    \* the client's cookie jar for "auth-token", with the role the user had at login
    ev,         \* the last request handled and its outcome
    loginLog    \* the rejected logins seen so far: what was wrong, and the response

vars == <<database, now, session, ev, loginLog>>

----------------------------------------------------------------------------
(* Bounds of the model *)

MaxTicks == 3          \* the clock advances at most this many times
TickStep == 302400     \* seconds per clock step (half a week)
MaxUserId == 2         \* ids used by the token round trip: -MaxUserId..MaxUserId

(* Program constants *)

one_week == 604800               \* chrono::Duration::weeks(1), in seconds
I32Max == 2147483647             \* id: i32
I32Min == -I32Max - 1

----------------------------------------------------------------------------
(* Option and Result *)

None == <<>>
Some(x) == <<x>>
IsSome(o) == Len(o) = 1
Unwrap(o) == o[1]

----------------------------------------------------------------------------
(* i32 <-> decimal string: id.to_string() and data.parse() *)

Digits == <<"0", "1", "2", "3", "4", "5", "6", "7", "8", "9">>

IsDigit(c) == \E i \in 1..10 : Digits[i] = c
DigitVal(c) == (CHOOSE i \in 1..10 : Digits[i] = c) - 1

RECURSIVE UDec(_)
UDec(n) == IF n < 10 THEN <<Digits[n + 1]>>
           ELSE Append(UDec(n \div 10), Digits[(n % 10) + 1])

\* variant: the sign is dropped
to_string_unsigned(id) == IF id < 0 THEN UDec(-id) ELSE UDec(id)

\* i32::to_string
to_string(id) == IF id < 0 THEN <<"-">> \o UDec(-id) ELSE UDec(id)

ParseErr == [ok |-> FALSE, val |-> 0]

\* the digit loop of i32::from_str: checked multiply-add, away from zero
RECURSIVE Accumulate(_, _, _)
Accumulate(s, acc, neg) ==
    IF s = <<>> THEN [ok |-> TRUE, val |-> acc]
    ELSE IF ~IsDigit(Head(s)) THEN ParseErr
    ELSE LET d == DigitVal(Head(s)) IN
         IF neg
         THEN IF acc < (I32Min + d + 9) \div 10 THEN ParseErr
              ELSE Accumulate(Tail(s), acc * 10 - d, TRUE)
         ELSE IF acc > (I32Max - d) \div 10 THEN ParseErr
              ELSE Accumulate(Tail(s), acc * 10 + d, FALSE)

\* str::parse::<i32>: an optional sign, then at least one digit
parse(s) ==
    IF s = <<>> THEN ParseErr
    ELSE IF Head(s) \in {"+", "-"}
         THEN IF Tail(s) = <<>> THEN ParseErr
              ELSE Accumulate(Tail(s), 0, Head(s) = "-")
         ELSE Accumulate(s, 0, FALSE)

----------------------------------------------------------------------------
(* `timestamp as u64`: an i64 reinterpreted as u64.  A u64 is written      *)
(* [wrapped, v] and stands for v when not wrapped, for 2^64 + v (v < 0)    *)
(* when wrapped: 2^64 is outside the integers TLC computes with.           *)

as_u64(timestamp) == [wrapped |-> timestamp < 0, v |-> timestamp]

\* the u64 is the number t
U64Is(u, t) == ~u.wrapped /\ u.v = t
\* the u64 is smaller than the non-negative number t
U64Less(u, t) == ~u.wrapped /\ u.v < t

----------------------------------------------------------------------------
(* JWT: jwt::RegisteredClaims, HMAC-SHA256 signing and verification *)

DefaultClaims ==
    [issuer |-> None, subject |-> None, audience |-> None, expiration |-> None,
     not_before |-> None, issued_at |-> None, json_web_token_id |-> None]

Header == [alg |-> "HS256"]

\* an ideal MAC: the tag determines the key and the signed content
Hmac(key, header, claims) == [key |-> key, header |-> header, claims |-> claims]

\* the compact serialization header.claims.signature
Token(header, claims, signature) ==
    [wellformed |-> TRUE, header |-> header, claims |-> claims, signature |-> signature]

\* a cookie value that is no three-part token
Malformed ==
    [wellformed |-> FALSE, header |-> [alg |-> ""], claims |-> DefaultClaims,
     signature |-> Hmac("", [alg |-> ""], DefaultClaims)]

\* claims.sign_with_key(key); signOk = FALSE is the Err the caller handles
sign_with_key(claims, key, signOk) ==
    IF signOk
    THEN [ok |-> TRUE, val |-> Token(Header, claims, Hmac(key, Header, claims))]
    ELSE [ok |-> FALSE, val |-> Malformed]

\* value.verify_with_key(key): parses, checks the algorithm and the signature,
\* and returns the claims.  The claims themselves (expiration) are not checked.
verify_with_key(value, key) ==
    IF ~value.wellformed THEN [ok |-> FALSE, val |-> DefaultClaims]
    ELSE IF value.header.alg # "HS256" THEN [ok |-> FALSE, val |-> DefaultClaims]
    ELSE IF value.signature # Hmac(key, value.header, value.claims)
         THEN [ok |-> FALSE, val |-> DefaultClaims]
    ELSE [ok |-> TRUE, val |-> value.claims]

\* Sign a JWT token and get a string
create_jwt_string(id, issuer, timestamp, key, signOk) ==
    LET claims == [DefaultClaims EXCEPT !.issuer = Some(issuer),
                                        !.subject = Some(to_string(id)),
                                        !.expiration = Some(as_u64(timestamp))]
    IN  sign_with_key(claims, key, signOk)

----------------------------------------------------------------------------
(* Users: models::user::UserData and UserRole, and the users table *)

\* UserRole as an ordered enumeration (derived ordering: declaration order)
RoleRank(role) == CASE role = "Guest" -> 0 [] role = "User" -> 1 [] role = "Admin" -> 2
Roles == {"Guest", "User", "Admin"}

\* an argon2 encoded hash of a password
Argon2(password) == [wellformed |-> TRUE, of |-> password]
\* a stored hash that is no argon2 encoding
BadHash == [wellformed |-> FALSE, of |-> ""]

\* argon2::verify_encoded(encoded, pwd): Err on an undecodable hash, else Ok(match)
verify_encoded(encoded, pwd) ==
    IF ~encoded.wellformed THEN [ok |-> FALSE, val |-> FALSE]
    ELSE [ok |-> TRUE, val |-> (encoded.of = pwd)]

NoUser == [id |-> 0, email |-> "", password |-> BadHash, role |-> "Guest"]

\* state.database.get_user_by_email(email): the row, or Err when there is none
get_user_by_email(db, email) ==
    IF \E u \in db : u.email = email
    THEN [ok |-> TRUE, val |-> CHOOSE u \in db : u.email = email]
    ELSE [ok |-> FALSE, val |-> NoUser]

\* state.database.get_user_by_id(id): the row, or Err when there is none
get_user_by_id(db, id) ==
    IF \E u \in db : u.id = id
    THEN [ok |-> TRUE, val |-> CHOOSE u \in db : u.id = id]
    ELSE [ok |-> FALSE, val |-> NoUser]

\* state.jwt_key: loaded at startup, never changed
jwt_key == "server-key"

----------------------------------------------------------------------------
(* Responses: models::MessageResponse *)

\* MessageResponse::new(status, message).http_response(): no Set-Cookie header
http_response(status, message) ==
    [status |-> status, message |-> message, cookies |-> {}]

unauthorized_error == http_response(401, "Unauthorized")
internal_server_error == http_response(500, "Internal server error")

----------------------------------------------------------------------------
(* POST /auth/basic: login with email and password *)

\* variant: a missing row is reported as a server fault
user_not_found_as_fault == internal_server_error

\* the response when get_user_by_email fails
user_not_found == http_response(400, "Invalid credentials provided!")

\* the response when verify_encoded fails
hash_verify_failed == internal_server_error

\* variant: the mismatch is named
password_mismatch_named == http_response(400, "Wrong password!")

\* the response when the password does not match the hash
password_mismatch == http_response(400, "Invalid credentials provided!")

\* the response when create_jwt_string fails
signing_failed == internal_server_error

\* variant: a day instead of a week
expire_time_one_day(utc) == utc + 86400

\* (utc + one_week).timestamp()
expire_time(utc) == utc + one_week

\* OffsetDateTime::from_unix_timestamp(expire_time), the cookie's Expires
cookie_expires(expire) == expire

\* http::Cookie::build("auth-token", jwt) ... .finish()
auth_cookie(jwt, expire) ==
    [name |-> "auth-token", value |-> jwt, secure |-> FALSE, http_only |-> TRUE,
     path |-> "/", expires |-> cookie_expires(expire)]

\* HttpResponse::Ok().cookie(..).json(MessageResponse::new(OK, "You have logged in"))
logged_in(jwt, expire) ==
    [status |-> 200, message |-> "You have logged in",
     cookies |-> {auth_cookie(jwt, expire)}]

\* the handler; calls lists the collaborators it invoked, in order
basic(db, key, utc, email, password, signOk) ==
    LET lookup == get_user_by_email(db, email) IN
    IF ~lookup.ok
    THEN [resp |-> user_not_found, calls |-> <<"get_user_by_email">>]
    ELSE
    LET user_data == lookup.val
        matches == verify_encoded(user_data.password, password) IN
    IF ~matches.ok
    THEN [resp |-> hash_verify_failed,
          calls |-> <<"get_user_by_email", "verify_encoded">>]
    ELSE IF ~matches.val
    THEN [resp |-> password_mismatch,
          calls |-> <<"get_user_by_email", "verify_encoded">>]
    ELSE
    LET expire == expire_time(utc)
        jwt == create_jwt_string(user_data.id, "localhost", expire, key, signOk) IN
    IF ~jwt.ok
    THEN [resp |-> signing_failed,
          calls |-> <<"get_user_by_email", "verify_encoded", "create_jwt_string">>]
    ELSE [resp |-> logged_in(jwt.val, expire),
          calls |-> <<"get_user_by_email", "verify_encoded", "create_jwt_string">>]

----------------------------------------------------------------------------
(* The guards: get_auth_data and define_auth! *)

AuthErr(response, calls) ==
    [ok |-> FALSE, user |-> NoUser, err |-> response, calls |-> calls]
AuthOk(user, calls) ==
    [ok |-> TRUE, user |-> user, err |-> http_response(0, ""), calls |-> calls]

\* Token could not be found
cookie_missing == unauthorized_error
\* variant: a bad token is reported as a server fault
verification_failed_as_fault == internal_server_error

\* Token verification failed
verification_failed == unauthorized_error
\* variant: a bad subject is reported as a rejection
subject_unparseable_as_rejection == unauthorized_error

\* the subject does not parse as a user id
subject_unparseable == internal_server_error
\* the claims have no subject
subject_missing == internal_server_error
\* variant: a missing row is reported as a rejection
lookup_failed_as_rejection == unauthorized_error

\* get_user_by_id failed
lookup_failed == internal_server_error

\* Get data from user based on request; cookie is req.cookie("auth-token")
get_auth_data(db, key, cookie) ==
    IF ~IsSome(cookie) THEN AuthErr(cookie_missing, <<>>)
    ELSE
    LET claim == verify_with_key(Unwrap(cookie), key) IN
    IF ~claim.ok THEN AuthErr(verification_failed, <<"verify_with_key">>)
    ELSE IF ~IsSome(claim.val.subject)
    THEN AuthErr(subject_missing, <<"verify_with_key">>)
    ELSE
    LET user_id == parse(Unwrap(claim.val.subject)) IN
    IF ~user_id.ok THEN AuthErr(subject_unparseable, <<"verify_with_key">>)
    ELSE
    LET found == get_user_by_id(db, user_id.val) IN
    IF found.ok THEN AuthOk(found.val, <<"verify_with_key", "get_user_by_id">>)
    ELSE AuthErr(lookup_failed, <<"verify_with_key", "get_user_by_id">>)

\* variant: the comparison is not strict
role_too_low_or_equal(role, role_enum) == RoleRank(role) <= RoleRank(role_enum)
\* variant: only the role itself passes
role_differs(role, role_enum) == RoleRank(role) # RoleRank(role_enum)

\* user_data.role < $role_enum
role_too_low(role, role_enum) == RoleRank(role) < RoleRank(role_enum)

\* the response when the role is too low
role_rejected == unauthorized_error

\* define_auth!($name, $role_enum): FromRequest::from_request
from_request(role_enum, db, key, cookie) ==
    LET got == get_auth_data(db, key, cookie) IN
    IF ~got.ok THEN got
    ELSE IF role_too_low(got.user.role, role_enum)
    THEN AuthErr(role_rejected, got.calls)
    ELSE AuthOk(got.user, got.calls)

\* Auth middleware defines: guard name -> required role
Guards == {"User", "Admin"}
middleware(name) == CASE name = "User" -> "User" [] name = "Admin" -> "Admin"

----------------------------------------------------------------------------
(* The system: the users table, the clock, one client, the two flows *)

Alice == [id |-> 1, email |-> "alice@kawaii.sh", password |-> Argon2("alice-pw"),
          role |-> "User"]
\* a row whose stored hash is damaged
Bob == [id |-> 2, email |-> "bob@kawaii.sh", password |-> BadHash, role |-> "Admin"]

Emails == {"alice@kawaii.sh", "bob@kawaii.sh", "nobody@kawaii.sh"}
Passwords == {"alice-pw", "wrong-pw"}

NoSession == [has |-> FALSE, token |-> Malformed, user_id |-> 0, role |-> "Guest"]

\* a token with the given subject and expiration under the given key
Crafted(subject, expiration, key) ==
    LET claims == [DefaultClaims EXCEPT !.issuer = Some("localhost"),
                                        !.subject = subject,
                                        !.expiration = Some(as_u64(expiration))]
    IN  Token(Header, claims, Hmac(key, Header, claims))

FarFuture == (MaxTicks + 2) * TickStep + one_week

\* cookie values a client can send besides the one login gave it
CraftedTokens ==
    { Malformed,
      \* Alice's claims signed with another key
      Crafted(Some(to_string(1)), FarFuture, "other-key"),
      \* Bob's claims carrying the signature of Alice's token
      [Crafted(Some(to_string(2)), FarFuture, jwt_key) EXCEPT
          !.signature = Crafted(Some(to_string(1)), FarFuture, jwt_key).signature],
      \* signed with the server's key, but not by login
      Crafted(None, FarFuture, jwt_key),
      Crafted(Some(<<"a", "b", "c">>), FarFuture, jwt_key),
      Crafted(Some(<<"9", "9", "9", "9", "9", "9", "9", "9", "9", "9">>), FarFuture, jwt_key),
      Crafted(Some(to_string(7)), FarFuture, jwt_key) }

\* req.cookie("auth-token") of the requests the client can make
RequestCookies ==
    {None} \cup {Some(t) : t \in CraftedTokens}
           \cup (IF session.has THEN {Some(session.token)} ELSE {})

\* what is wrong with a login request, decided from the table alone
LoginCase(db, email, password) ==
    IF ~\E u \in db : u.email = email THEN "no_record"
    ELSE LET u == CHOOSE u \in db : u.email = email IN
         IF ~u.password.wellformed THEN "bad_hash"
         ELSE IF u.password.of # password THEN "wrong_password"
         ELSE "correct"

Init ==
    /\ database = {Alice, Bob}
    /\ now = 0
    /\ session = NoSession
    /\ ev = [op |-> "none"]
    /\ loginLog = {}

\* POST /auth/basic
Login ==
    \E email \in Emails, password \in Passwords, signOk \in BOOLEAN :
        LET out == basic(database, jwt_key, now, email, password, signOk)
            case == LoginCase(database, email, password)
        IN  /\ ev' = [op |-> "login", email |-> email, password |-> password,
                      signOk |-> signOk, case |-> case,
                      resp |-> out.resp, calls |-> out.calls]
            /\ session' =
                 IF out.resp.cookies = {} THEN session
                 ELSE LET c == CHOOSE c \in out.resp.cookies : TRUE
                          u == CHOOSE u \in database : u.email = email
                      IN  [has |-> TRUE, token |-> c.value, user_id |-> u.id,
                           role |-> u.role]
            /\ loginLog' =
                 IF case \in {"no_record", "wrong_password"}
                 THEN loginLog \cup {[case |-> case, resp |-> out.resp]}
                 ELSE loginLog
            /\ UNCHANGED <<database, now>>

\* a request to a handler that takes the guard `name` as an extractor
Guard ==
    \E name \in Guards, cookie \in RequestCookies :
        /\ ev' = [op |-> "guard", guard |-> name, cookie |-> cookie,
                  out |-> from_request(middleware(name), database, jwt_key, cookie)]
        /\ UNCHANGED <<database, now, session, loginLog>>

\* time passes
Tick ==
    /\ now < MaxTicks * TickStep
    /\ now' = now + TickStep
    /\ ev' = [op |-> "tick"]
    /\ UNCHANGED <<database, session, loginLog>>

\* the users table is changed from outside the two flows: a role is changed
UpdateRole ==
    \E u \in database, role \in Roles :
        /\ role # u.role
        /\ database' = (database \ {u}) \cup {[u EXCEPT !.role = role]}
        /\ ev' = [op |-> "update_role"]
        /\ UNCHANGED <<now, session, loginLog>>

\* ... or a row is removed
DeleteUser ==
    \E u \in database :
        /\ database' = database \ {u}
        /\ ev' = [op |-> "delete_user"]
        /\ UNCHANGED <<now, session, loginLog>>

Next == Login \/ Guard \/ Tick \/ UpdateRole \/ DeleteUser

Spec == Init /\ [][Next]_vars

----------------------------------------------------------------------------
(* create_jwt_string and verify_with_key on their own: sign, then verify *)

Keys == {"server-key", "other-key"}
RtIds == (-MaxUserId .. MaxUserId) \cup {10, 12345, I32Max, -I32Max}
RtTimestamps == {-one_week, -1, 0, 1, one_week, FarFuture}

InitJwt ==
    /\ database = {Alice, Bob}
    /\ now = 0
    /\ session = NoSession
    /\ loginLog = {}
    /\ \E id \in RtIds, timestamp \in RtTimestamps, key \in Keys, other \in Keys :
          ev = [op |-> "claims", id |-> id, timestamp |-> timestamp,
                key |-> key, other |-> other]

SignJwt ==
    /\ ev.op = "claims"
    /\ ev' = [op |-> "signed", id |-> ev.id, timestamp |-> ev.timestamp,
              key |-> ev.key, other |-> ev.other,
              jwt |-> create_jwt_string(ev.id, "localhost", ev.timestamp, ev.key, TRUE)]
    /\ UNCHANGED <<database, now, session, loginLog>>

VerifyJwt ==
    /\ ev.op = "signed"
    /\ ev.jwt.ok
    /\ ev' = [op |-> "verified", id |-> ev.id, timestamp |-> ev.timestamp,
              key |-> ev.key, other |-> ev.other, jwt |-> ev.jwt,
              claim |-> verify_with_key(ev.jwt.val, ev.key),
              claim_other |-> verify_with_key(ev.jwt.val, ev.other)]
    /\ UNCHANGED <<database, now, session, loginLog>>

NextJwt == SignJwt \/ VerifyJwt

SpecJwt == InitJwt /\ [][NextJwt]_vars

----------------------------------------------------------------------------
(* Properties *)

\* the cookie of the last guarded request verifies under the server's key
Verified == IsSome(ev.cookie) /\ verify_with_key(Unwrap(ev.cookie), jwt_key).ok
\* ... and its claims
CookieClaims == Unwrap(ev.cookie).claims
\* ... and its subject is the decimal string of id
SubjectIs(id) ==
    /\ IsSome(CookieClaims.subject)
    /\ parse(Unwrap(CookieClaims.subject)).ok
    /\ parse(Unwrap(CookieClaims.subject)).val = id
\* ... and its expiration is in the past
Expired ==
    /\ IsSome(CookieClaims.expiration)
    /\ U64Less(Unwrap(CookieClaims.expiration), now)
\* the role the guard of the last request requires
Required == RoleRank(middleware(ev.guard))

LoginIndistinguishable ==
    \A a, b \in loginLog :
        (a.case = "no_record" /\ b.case = "wrong_password") =>
            /\ a.resp = b.resp
            /\ a.resp.status = 400
            /\ a.resp.message = "Invalid credentials provided!"
            /\ a.resp.cookies = {}

LoginBothRejectionsWitness ==
    /\ \E a \in loginLog : a.case = "no_record"
    /\ \E b \in loginLog : b.case = "wrong_password"

\* C3: a login whose email has no record gets 400 with the generic message
\* and no cookie; the hash check and the signing are not reached.
LoginUnknownEmail ==
    (ev.op = "login" /\ ev.case = "no_record") =>
        /\ ev.resp.status = 400
        /\ ev.resp.message = "Invalid credentials provided!"
        /\ ev.resp.cookies = {}
        /\ ev.calls = <<"get_user_by_email">>

LoginUnknownEmailWitness ==
    ev.op = "login" /\ ev.case = "no_record" /\ ev.email = "alice@kawaii.sh"

\* C4: a correct login (signing succeeding) gets 200 and one cookie named
\* auth-token whose token expires 604800 s after issuance, has the decimal
\* string of the user's id as subject, and whose Expires is that expiration.
LoginIssuesWeekToken ==
    (ev.op = "login" /\ ev.case = "correct" /\ ev.signOk) =>
        /\ ev.resp.status = 200
        /\ Cardinality(ev.resp.cookies) = 1
        /\ \A c \in ev.resp.cookies :
             /\ c.name = "auth-token"
             /\ verify_with_key(c.value, jwt_key).ok
             /\ IsSome(c.value.claims.expiration)
             /\ U64Is(Unwrap(c.value.claims.expiration), now + 604800)
             /\ U64Is(Unwrap(c.value.claims.expiration), c.expires)
             /\ \E u \in database :
                  /\ u.email = ev.email
                  /\ c.value.claims.subject = Some(to_string(u.id))
                  /\ parse(Unwrap(c.value.claims.subject)).val = u.id

LoginIssuesWeekTokenWitness ==
    /\ ev.op = "login" /\ ev.case = "correct" /\ ev.signOk
    /\ now > 0
    /\ ev.resp.cookies # {}

\* C5: a correctly signed token whose expiration is earlier than the current
\* time is rejected by every guard.
ExpiredTokenRejected ==
    (ev.op = "guard" /\ Verified /\ Expired) => ~ev.out.ok

\* C6 (as stated): for every id, timestamp and key, signing and verifying
\* under the same key gives back the id and the timestamp; another key fails.
JwtRoundTrip ==
    ev.op = "verified" =>
        /\ ev.claim.ok
        /\ IsSome(ev.claim.val.subject)
        /\ parse(Unwrap(ev.claim.val.subject)).ok
        /\ parse(Unwrap(ev.claim.val.subject)).val = ev.id
        /\ IsSome(ev.claim.val.expiration)
        /\ U64Is(Unwrap(ev.claim.val.expiration), ev.timestamp)
        /\ ev.other # ev.key => ~ev.claim_other.ok

\* C6 (amended): the same for every timestamp that is not negative.
JwtRoundTripNonNegative ==
    (ev.op = "verified" /\ ev.timestamp >= 0) =>
        /\ ev.claim.ok
        /\ IsSome(ev.claim.val.subject)
        /\ parse(Unwrap(ev.claim.val.subject)).ok
        /\ parse(Unwrap(ev.claim.val.subject)).val = ev.id
        /\ IsSome(ev.claim.val.expiration)
        /\ U64Is(Unwrap(ev.claim.val.expiration), ev.timestamp)
        /\ ev.other # ev.key => ~ev.claim_other.ok

JwtRoundTripWitness ==
    /\ ev.op = "verified" /\ ev.timestamp > 0 /\ ev.id < 0
    /\ ev.other # ev.key
    /\ ev.claim.ok /\ ~ev.claim_other.ok

\* C7: a request with no auth-token cookie, or one that does not verify
\* under the server's key, is rejected with 401 and no user lookup is made.
GuardRejectsUnverified ==
    (ev.op = "guard" /\ ~Verified) =>
        /\ ~ev.out.ok
        /\ ev.out.err.status = 401
        /\ \A i \in 1..Len(ev.out.calls) : ev.out.calls[i] # "get_user_by_id"

GuardRejectsWrongKeyWitness ==
    /\ ev.op = "guard"
    /\ IsSome(ev.cookie)
    /\ Unwrap(ev.cookie).wellformed
    /\ Unwrap(ev.cookie).signature.key = "other-key"
    /\ ~ev.out.ok

\* C8: server faults are 500, never a rejection: a hash that cannot be
\* verified or a signing failure in login (and no cookie); a verified token
\* with no subject, an unparseable subject or a failed lookup in any guard.
ServerFaultsAre500 ==
    /\ (ev.op = "login" /\ (ev.case = "bad_hash" \/ (ev.case = "correct" /\ ~ev.signOk)))
          => (ev.resp.status = 500 /\ ev.resp.cookies = {})
    /\ (ev.op = "guard" /\ Verified /\ ~\E u \in database : SubjectIs(u.id))
          => (~ev.out.ok /\ ev.out.err.status = 500)

ServerFaultUnparseableSubjectWitness ==
    /\ ev.op = "guard" /\ ev.guard = "User"
    /\ Verified
    /\ CookieClaims.subject = Some(<<"a", "b", "c">>)
    /\ ev.out.err.status = 500

WithIssuedToken ==
    /\ ev.op = "guard"
    /\ session.has
    /\ ev.cookie = Some(session.token)
    /\ ~Expired

\* the guard's answer follows the row of the token's user as it is now
GuardDecidesOnCurrentRecord ==
    WithIssuedToken =>
        /\ "role" \notin DOMAIN session.token.claims
        /\ \A u \in database :
             u.id = session.user_id =>
                /\ ev.out.ok <=> RoleRank(u.role) >= Required
                /\ ev.out.ok => ev.out.user = u
                /\ ~ev.out.ok => ev.out.err.status = 401
        /\ (~\E u \in database : u.id = session.user_id) =>
                (~ev.out.ok /\ ev.out.err.status = 500)

\* a step that handles a login or a guarded request leaves the table as it was
FlowsDoNotWrite == (ev' # ev /\ ev'.op \in {"login", "guard"}) => database' = database

====
